---- MODULE Spec2Model ----
(***************************************************************************)
(* Credit-card fraud detection: the bulk feature derivation of             *)
(* DataIngestion.initiate_data_ingestion and the decision logic of the     *)
(* prediction paths (backend_api.predict_fraud, PredictPipeline.predict,   *)
(* predictpipeline.predict, the legacy Flask /predict handler).            *)
(*                                                                         *)
(* Numbers.  Timestamps are whole seconds.  Amounts are whole units.  A    *)
(* float column that may hold NaN is a tuple: <<>> is NaN/NaT, <<v>> an    *)
(* integer value, <<n, d>> the rational n/d in lowest terms.  A            *)
(* probability is the rational k/ProbDen, compared with the thresholds by  *)
(* cross-multiplication.                                                   *)
(***************************************************************************)
EXTENDS Integers, Sequences, FiniteSets

----------------------------------------------------------------------------
(* Bounds of the model *)

MaxTxns == 3
NumCards == 2
NumMerchants == 2
MaxDay == 1
MaxSlot == 2
MaxAmt == 2
ProbDen == 10
MaxRequests == 2
MaxAbsent == 1
MaxNull == 1
MaxCat == 2
GeoGrid == 3
MaxExcess == 1
MaxSamples == 3
MaxCols == 2
MaxYears == 2

(* Program constants *)

\* rolling('1h'): the window length in seconds
HourSeconds == 3600
\* Timedelta.seconds is the seconds component of a timedelta: 0 .. 86399
DaySeconds == 86400
YearDays == 365

SlotSeconds == HourSeconds \div 2

Cards == 1..NumCards
Merchants == 1..NumMerchants
Amounts == 1..MaxAmt
Times == {d * DaySeconds + s * SlotSeconds : d \in 0..MaxDay, s \in 0..MaxSlot}

\* One line of data/fraudTrain.csv, reduced to the columns the derived
\* statistics read; id is the row's index label, kept through the sort.
RawRow == [id : 1..MaxTxns, cc_num : Cards, ts : Times, amt : Amounts,
           merchant : Merchants]

VARIABLES
    raw,    \* the rows of data/fraudTrain.csv, in file order
    df,     \* the data frame initiate_data_ingestion derives from raw
    ipc,    \* "load" while the file is being written, "done" after
            \* ingestion, "rerun" after a second ingestion of the same file
    train_set,  \* the rows written to artifacts/train.csv
    test_set    \* the rows written to artifacts/test.csv

ingestVars == <<raw, df, ipc, train_set, test_set>>

VARIABLES
    files,            \* the artifact files that exist and load
    started,          \* the FastAPI startup event has run
    model,            \* backend_api.model is not None
    preprocessor,     \* backend_api.preprocessor is not None
    db_service,       \* backend_api.db_service is not None
    responses,        \* what each prediction call returned, oldest first
    db_transactions,  \* rows of the table 'transactions'
    db_flagged        \* rows of the table 'flagged_transactions'

predictVars == <<files, started, model, preprocessor, db_service, responses,
                 db_transactions, db_flagged>>

VARIABLES
    flask_request,    \* the last request POSTed to the Flask /predict
    flask_response    \* what the handler answered to it

flaskVars == <<flask_request, flask_response>>

VARIABLES
    fraud_probability_threshold, \* config.prediction.fraud_probability_threshold
    request_pool    \* the request bodies the clients of /predict send

configVars == <<fraud_probability_threshold, request_pool>>

VARIABLES
    categories_,  \* per categorical column, the categories the encoder was fitted on
    X,            \* the categorical part of the row given to transform
    X_processed   \* what transform returned for it

transformVars == <<categories_, X, X_processed>>

VARIABLES
    geo     \* the last call of haversine: its arguments and what it returned

geoVars == <<geo>>

VARIABLES
    prepared  \* the last call of _prepare_input: its argument and its outcome

trainerVars == <<prepared>>

VARIABLES
    aged      \* a raw row's two dates and the customer_age derived from them

ageVars == <<aged>>

VARIABLES
    last_read  \* what the last read-only endpoint of the backend returned

readVars == <<last_read>>

vars == <<ingestVars, predictVars, flaskVars, configVars, transformVars,
          geoVars, trainerVars, ageVars, readVars>>

----------------------------------------------------------------------------
(* Arithmetic helpers *)

RECURSIVE GCD(_, _)
GCD(a, b) == IF b = 0 THEN a ELSE GCD(b, a % b)

\* The rational n/d (d > 0, n >= 0) in lowest terms.
Rat(n, d) == LET g == GCD(n, d) IN <<n \div g, d \div g>>

NaN == <<>>

SetMax(S) == CHOOSE x \in S : \A y \in S : y <= x

RECURSIVE SumAmt(_, _)
SumAmt(s, P) ==
    IF P = {} THEN 0
    ELSE LET j == CHOOSE x \in P : TRUE IN s[j].amt + SumAmt(s, P \ {j})

----------------------------------------------------------------------------
(* df.sort_values(['cc_num', 'trans_date_trans_time']) *)

\* Strict order of the sort key (cc_num, then timestamp).
KeyLess(a, b) ==
    \/ a.cc_num < b.cc_num
    \/ a.cc_num = b.cc_num /\ a.ts < b.ts

\* Mutant of SortRank: rows with equal keys come out in reverse file order.
SortRank_TiesReversed(s, i) ==
    Cardinality({j \in 1..Len(s) :
        \/ KeyLess(s[j], s[i])
        \/ ~KeyLess(s[i], s[j]) /\ j > i}) + 1

\* Position of row i after the sort; rows with equal keys keep file order
\* (the multi-column sort is a stable lexsort).
SortRank(s, i) ==
    Cardinality({j \in 1..Len(s) :
        \/ KeyLess(s[j], s[i])
        \/ ~KeyLess(s[i], s[j]) /\ j < i}) + 1

SortValues(s) ==
    [k \in 1..Len(s) |-> s[CHOOSE i \in 1..Len(s) : SortRank(s, i) = k]]

----------------------------------------------------------------------------
(* The per-card statistics; s is the sorted frame, i a position in it *)

\* groupby('cc_num'): the positions of i's group that precede i.
GroupBefore(s, i) == {j \in 1..(i - 1) : s[j].cc_num = s[i].cc_num}

\* groupby('cc_num')['trans_date_trans_time'].diff(): NaT on a group's first row.
GroupDiff(s, i) ==
    IF GroupBefore(s, i) = {} THEN NaN
    ELSE <<s[i].ts - s[SetMax(GroupBefore(s, i))].ts>>

\* .dt.seconds: the seconds component of the timedelta, not its total.
DtSeconds(td) == IF td = NaN THEN NaN ELSE <<td[1] % DaySeconds>>

FillNa(v, default) == IF v = NaN THEN default ELSE v

\* Mutant of TxnTimeGap: the .fillna(0) is left out.
TxnTimeGap_NoFillNa(s, i) == DtSeconds(GroupDiff(s, i))

TxnTimeGap(s, i) == FillNa(DtSeconds(GroupDiff(s, i)), <<0>>)

\* groupby('cc_num')['amt'].rolling('1h').count(): the window of row i is
\* the rows of its group up to and including i whose timestamp is in
\* (ts_i - 1h, ts_i] (closed on the right only).
RollingWindow(s, i) ==
    {j \in GroupBefore(s, i) \cup {i} : s[j].ts > s[i].ts - HourSeconds}

TxnCount1h(s, i) == Cardinality(RollingWindow(s, i))

\* x.expanding().mean().shift(1): the mean of the group's rows before i.
ExpandingMeanShift(s, i) ==
    LET P == GroupBefore(s, i)
    IN  IF P = {} THEN NaN ELSE Rat(SumAmt(s, P), Cardinality(P))

\* df['amt'].median(): over every row of the frame.
Median(s) ==
    LET n == Len(s)
        \* the k-th smallest amount
        Kth(k) == CHOOSE a \in {s[j].amt : j \in 1..n} :
                    /\ Cardinality({j \in 1..n : s[j].amt < a}) < k
                    /\ Cardinality({j \in 1..n : s[j].amt <= a}) >= k
    IN  IF n % 2 = 1 THEN Rat(Kth((n + 1) \div 2), 1)
        ELSE Rat(Kth(n \div 2) + Kth(n \div 2 + 1), 2)

AvgAmtPerCard(s, i) == FillNa(ExpandingMeanShift(s, i), Median(s))

\* df['amt'] / (df['avg_amt_per_card'] + 1)
AmtDeviation(amt, avg) ==
    IF avg = NaN THEN NaN ELSE Rat(amt * avg[2], avg[1] + avg[2])

\* groupby('cc_num')['merchant'].transform(lambda x: ~x.duplicated()).astype(int)
IsNewMerchant(s, i) ==
    IF \E j \in GroupBefore(s, i) : s[j].merchant = s[i].merchant THEN 0 ELSE 1

DeriveRow(s, i) ==
    [id |-> s[i].id, cc_num |-> s[i].cc_num, ts |-> s[i].ts,
     amt |-> s[i].amt, merchant |-> s[i].merchant,
     txn_time_gap |-> TxnTimeGap(s, i),
     txn_count_1h |-> TxnCount1h(s, i),
     avg_amt_per_card |-> AvgAmtPerCard(s, i),
     amt_deviation |-> AmtDeviation(s[i].amt, AvgAmtPerCard(s, i)),
     is_new_merchant |-> IsNewMerchant(s, i)]

\* Mutant of Derive: the rows are added to the frame of the previous run.
Derive_AppendToPrevious(r) ==
    LET s == SortValues(r) IN df \o [i \in 1..Len(s) |-> DeriveRow(s, i)]

\* The frame initiate_data_ingestion derives from the rows r.
Derive(r) == LET s == SortValues(r) IN [i \in 1..Len(s) |-> DeriveRow(s, i)]

----------------------------------------------------------------------------
(* train_test_split(df, test_size=0.2, stratify=df['is_fraud'],
   random_state=42) *)

random_state == 42

\* ceil(0.2 * n), the number of test rows
NumTest(n) == (2 * n + 9) \div 10

\* The permutation of the positions 1..n that the generator seeded with
\* random_state draws: one fixed permutation for each n.  A rotation by
\* random_state stands for the generator's; the labels of is_fraud, which
\* the stratified draw also reads, are a column of the same file.  (The
\* size checks that make the split of a frame of fewer than five rows
\* raise are left out: the frames of the model stand for a large file.)
Permutation(n) == [k \in 1..n |-> ((k - 1 + random_state) % n) + 1]

\* The rows of the test set, then those of the train set, each in the
\* order of the permutation.
TestRows(frame) ==
    LET n == Len(frame)
    IN  [k \in 1..NumTest(n) |-> frame[Permutation(n)[k]]]

TrainRows(frame) ==
    LET n == Len(frame)
    IN  [k \in 1..(n - NumTest(n)) |-> frame[Permutation(n)[NumTest(n) + k]]]

----------------------------------------------------------------------------
(* Actions of the ingestion *)

\* One more line of data/fraudTrain.csv.
AppendRaw ==
    /\ ipc = "load"
    /\ Len(raw) < MaxTxns
    /\ \E c \in Cards, t \in Times, a \in Amounts, m \in Merchants :
          raw' = Append(raw, [id |-> Len(raw) + 1, cc_num |-> c, ts |-> t,
                              amt |-> a, merchant |-> m])
    /\ UNCHANGED <<df, ipc, train_set, test_set>>
    /\ UNCHANGED <<predictVars, flaskVars, configVars, transformVars,
                   geoVars, trainerVars, ageVars, readVars>>

InitiateDataIngestion ==
    /\ ipc = "load"
    /\ Len(raw) >= 1
    /\ df' = Derive(raw)
    /\ train_set' = TrainRows(df')
    /\ test_set' = TestRows(df')
    /\ ipc' = "done"
    /\ UNCHANGED raw
    /\ UNCHANGED <<predictVars, flaskVars, configVars, transformVars,
                   geoVars, trainerVars, ageVars, readVars>>

\* initiate_data_ingestion once more, data/fraudTrain.csv being what it
\* was: the first run wrote artifacts/raw.csv, train.csv and test.csv and
\* left the file it reads alone.
RerunDataIngestion ==
    /\ ipc = "done"
    /\ df' = Derive(raw)
    /\ train_set' = TrainRows(df')
    /\ test_set' = TestRows(df')
    /\ ipc' = "rerun"
    /\ UNCHANGED raw
    /\ UNCHANGED <<predictVars, flaskVars, configVars, transformVars,
                   geoVars, trainerVars, ageVars, readVars>>

IngestNext == AppendRaw \/ InitiateDataIngestion \/ RerunDataIngestion

----------------------------------------------------------------------------
(* Probabilities and the decision logic of the prediction paths *)

\* A probability just below a tier boundary, closer to it than the four
\* decimals of round(fraud_prob, 4).
FineProbs == {<<19999, 25000>>}

\* A probability is <<n, d>>, the rational n/d.
Probs == {<<k, ProbDen>> : k \in 0..ProbDen} \cup FineProbs

\* PredictionConfig.fraud_probability_threshold: 0.5 by default
DefaultThreshold == <<5, 10>>

\* Config.from_env: the default, or float(FRAUD_THRESHOLD) when the
\* environment sets it (here to 0.3).
Thresholds == {DefaultThreshold, <<3, 10>>}

\* p >= q on rationals
GE(p, q) == p[1] * q[2] >= q[1] * p[2]

\* round(p, 4): to the nearest multiple of 1/10000, halves to even.
Round4(p) ==
    LET q == (p[1] * 10000) \div p[2]
        r == (p[1] * 10000) % p[2]
    IN  IF 2 * r > p[2] \/ (2 * r = p[2] /\ q % 2 = 1)
        THEN <<q + 1, 10000>> ELSE <<q, 10000>>

\* backend_api.predict_fraud: int(fraud_prob >= 0.5)
ApiFraudPred(p) == IF GE(p, <<5, 10>>) THEN 1 ELSE 0

\* Mutant of ApiDecision: BLOCK only above 0.8, not at it.
ApiDecision_StrictBlock(p) ==
    IF ~GE(<<8, 10>>, p) THEN "BLOCK"
    ELSE IF GE(p, <<5, 10>>) THEN "REVIEW"
    ELSE "ALLOW"

\* backend_api.predict_fraud: the 3-tier decision
ApiDecision(p) ==
    IF GE(p, <<8, 10>>) THEN "BLOCK"
    ELSE IF GE(p, <<5, 10>>) THEN "REVIEW"
    ELSE "ALLOW"

ApiConfidence(p) ==
    IF GE(p, <<8, 10>>) THEN "high"
    ELSE IF GE(p, <<5, 10>>) THEN "medium"
    ELSE IF ~GE(p, <<2, 10>>) THEN "high" ELSE "medium"

\* PredictPipeline.predict (pipeline/predict_pipeline.py)
PipelineFraudPred(p) == IF GE(p, <<5, 10>>) THEN 1 ELSE 0

\* Mutant of PipelineDecision: the labels of the two lower tiers swapped.
PipelineDecision_SwappedTiers(p) ==
    IF GE(p, <<8, 10>>) THEN "BLOCK"
    ELSE IF GE(p, <<5, 10>>) THEN "ALLOW"
    ELSE "REVIEW"

PipelineDecision(p) ==
    IF GE(p, <<8, 10>>) THEN "BLOCK"
    ELSE IF GE(p, <<5, 10>>) THEN "REVIEW"
    ELSE "ALLOW"

\* Mutant of LegacyFraudPred: fraud only above 0.5, not at it.
LegacyFraudPred_Strict(p) == IF ~GE(<<5, 10>>, p) THEN 1 ELSE 0

\* predictpipeline.predict (src/pipeline/predict_pipeline.py)
LegacyFraudPred(p) == IF GE(p, <<5, 10>>) THEN 1 ELSE 0

\* result['fraud_prediction'].map({0: 'ALLOW', 1: 'BLOCK'})
LegacyDecision(pred) == IF pred = 1 THEN "BLOCK" ELSE "ALLOW"

----------------------------------------------------------------------------
(* The feature lists of the components *)

SeqRange(q) == {q[i] : i \in 1..Len(q)}

\* DataTransformation.get_preprocessor: the columns of the three transformers
num_features ==
    <<"amt", "city_pop", "lat", "long", "merch_lat", "merch_long",
      "distance_km", "txn_time_gap", "txn_count_1h",
      "avg_amt_per_card", "amt_deviation",
      "customer_age", "txn_hour", "is_weekend">>

low_card_cat == <<"gender", "state", "category">>

high_card_cat == <<"merchant", "cc_num">>

\* The columns the fitted ColumnTransformer selects by name; transform
\* raises ValueError when the frame lacks one of them, and remainder='drop'
\* discards any other column.
PreprocessorColumns == num_features \o low_card_cat \o high_card_cat

\* Mutant of required_features: cc_num is left out.
required_features_NoCcNum ==
    <<"amt", "city_pop", "lat", "long", "merch_lat", "merch_long",
      "distance_km", "txn_time_gap", "txn_count_1h",
      "avg_amt_per_card", "amt_deviation", "customer_age",
      "txn_hour", "is_weekend", "gender", "state", "category",
      "merchant">>

\* PredictionConfig.__post_init__
required_features ==
    <<"amt", "city_pop", "lat", "long", "merch_lat", "merch_long",
      "distance_km", "txn_time_gap", "txn_count_1h",
      "avg_amt_per_card", "amt_deviation", "customer_age",
      "txn_hour", "is_weekend", "gender", "state", "category",
      "merchant", "cc_num">>

\* The fields of the pydantic model TransactionRequest, the keys of
\* transaction.dict()
TransactionRequest_fields ==
    <<"amt", "city_pop", "lat", "long", "merch_lat", "merch_long",
      "distance_km", "txn_time_gap", "txn_count_1h", "avg_amt_per_card",
      "amt_deviation", "customer_age", "txn_hour", "is_weekend", "gender",
      "state", "category", "merchant", "cc_num">>

\* The keys of the dict CustomData.get_data_as_data_frame builds
get_data_as_data_frame_columns ==
    <<"amt", "city_pop", "lat", "long", "merch_lat", "merch_long",
      "distance_km", "txn_time_gap", "txn_count_1h", "avg_amt_per_card",
      "amt_deviation", "customer_age", "txn_hour", "is_weekend", "gender",
      "state", "category", "merchant", "cc_num">>

----------------------------------------------------------------------------
(* The artifacts and the FastAPI backend *)

XgbModelPkl == "artifacts/xgb_model.pkl"
ModelPkl == "artifacts/model.pkl"
PreprocessorPkl == "artifacts/preprocessor.pkl"
ArtifactFiles == {XgbModelPkl, ModelPkl, PreprocessorPkl}

\* "ok": the file exists and joblib.load returns an object;
\* "corrupt": it exists and joblib.load raises; "missing": it does not exist.
FileStates == {"ok", "corrupt", "missing"}

\* The startup event.  A joblib.load that raises ends the handler in its
\* outer except: whatever comes after it is not loaded.
load_artifacts ==
    /\ ~started
    /\ started' = TRUE
    /\ model' = (files[XgbModelPkl] = "ok")
    /\ preprocessor' =
          (files[XgbModelPkl] # "corrupt" /\ files[PreprocessorPkl] = "ok")
    /\ \E credentials \in BOOLEAN :
          db_service' = (/\ files[XgbModelPkl] # "corrupt"
                         /\ files[PreprocessorPkl] # "corrupt"
                         /\ credentials)
    /\ UNCHANGED <<files, responses, db_transactions, db_flagged>>
    /\ UNCHANGED <<ingestVars, flaskVars, configVars, transformVars,
                   geoVars, trainerVars, ageVars, readVars>>

\* The fields of a TransactionRequest the model follows: the card and the
\* count of the last hour, both as the client states them.
TransactionRequests == [cc_num : Cards, txn_count_1h : 1..MaxRequests]

\* The row predict_fraud hands to log_transaction.
DbTransaction(p, req) ==
    [id |-> Len(db_transactions) + 1,
     cc_num |-> req.cc_num,
     txn_count_1h |-> req.txn_count_1h,
     fraud_probability |-> Round4(p),
     fraud_prediction |-> ApiFraudPred(p),
     decision |-> ApiDecision(p)]

RiskLevel(decision) == IF decision = "BLOCK" THEN "CRITICAL" ELSE "HIGH"

\* Mutant of ArtifactsMissing: only the model is looked at.
ArtifactsMissing_ModelOnly == ~model

\* if model is None or preprocessor is None
ArtifactsMissing == ~model \/ ~preprocessor

\* Mutant of ShouldFlag: only a BLOCK is flagged.
ShouldFlag_BlockOnly(decision, inserted) == decision = "BLOCK" /\ inserted

\* if decision in ["BLOCK", "REVIEW"] and inserted_transaction
ShouldFlag(decision, inserted) ==
    decision \in {"BLOCK", "REVIEW"} /\ inserted

\* Mutant of PredictionStatus: a logging failure surfaces as a 500.
PredictionStatus_LoggingPropagates(logged) == IF logged THEN "200" ELSE "500"

\* The status of a request that was scored: the try/except around the
\* database logging swallows every failure and the return is reached.
PredictionStatus(logged) == "200"

\* Mutant of ScoringErrorResponse: a default probability is substituted.
ScoringErrorResponse_DefaultProbability ==
    [path |-> "predict_fraud", status |-> "200",
     fraud_probability |-> <<0, 10000>>, decision |-> "ALLOW"]

\* except Exception: HTTPException(500), detail only
ScoringErrorResponse == [path |-> "predict_fraud", status |-> "500"]

\* POST /predict of the FastAPI backend, with a request that passed the
\* TransactionRequest validation.  inserted: log_transaction returned a
\* record; flag_ok: the insert of log_flagged_transaction returned one.
\* The field logging of a response records what the logging did; it is
\* not part of the HTTP response.
predict_fraud ==
    /\ started
    /\ Len(responses) < MaxRequests
    /\ \/ \* artifacts not loaded: HTTPException(503), re-raised as it is
          /\ ArtifactsMissing
          /\ responses' = Append(responses,
                [path |-> "predict_fraud", status |-> "503"])
          /\ UNCHANGED <<db_transactions, db_flagged>>
       \/ \* preprocessor.transform or model.predict_proba raises: 500
          /\ ~ArtifactsMissing
          /\ responses' = Append(responses, ScoringErrorResponse)
          /\ UNCHANGED <<db_transactions, db_flagged>>
       \/ /\ ~ArtifactsMissing
          \* transform finds every column it selects in the frame
          /\ SeqRange(PreprocessorColumns) \subseteq
                SeqRange(TransactionRequest_fields)
          /\ \E p \in Probs, req \in request_pool :
             \E inserted \in BOOLEAN, flag_ok \in BOOLEAN :
                LET called  == db_service /\ ShouldFlag(ApiDecision(p), inserted)
                    written == called /\ flag_ok
                IN  \* the outcomes of calls that are not made are not drawn
                    /\ db_service \/ ~inserted
                    /\ called \/ ~flag_ok
                    /\ responses' = Append(responses,
                          [path |-> "predict_fraud",
                           status |-> PredictionStatus(
                                         db_service /\ inserted
                                         /\ (called => flag_ok)),
                           prob |-> p,
                           \* the frame given to preprocessor.transform
                           df |-> req,
                           fraud_probability |-> Round4(p),
                           fraud_prediction |-> ApiFraudPred(p),
                           decision |-> ApiDecision(p),
                           confidence |-> ApiConfidence(p),
                           logging |-> [service |-> db_service,
                                        inserted |-> inserted,
                                        flag_called |-> called,
                                        flag_ok |-> flag_ok]])
                    /\ db_transactions' =
                          IF inserted
                          THEN Append(db_transactions, DbTransaction(p, req))
                          ELSE db_transactions
                    /\ db_flagged' =
                          IF written
                          THEN Append(db_flagged,
                                  [transaction_id |-> DbTransaction(p, req).id,
                                   risk_level |-> RiskLevel(ApiDecision(p)),
                                   reviewed |-> FALSE])
                          ELSE db_flagged
    /\ UNCHANGED <<files, started, model, preprocessor, db_service>>
    /\ UNCHANGED <<ingestVars, flaskVars, configVars, transformVars,
                   geoVars, trainerVars, ageVars, readVars>>

\* The read-only endpoints, served once the startup event has run.

\* Mutant of health_check: a missing model is loaded when health is asked.
health_check_Reloads ==
    /\ started
    /\ model' = TRUE
    /\ last_read' = [path |-> "health_check", status |-> "200",
                     model_loaded |-> TRUE,
                     preprocessor_loaded |-> preprocessor,
                     database_connected |-> FALSE]
    /\ UNCHANGED <<files, started, preprocessor, db_service, responses,
                   db_transactions, db_flagged>>
    /\ UNCHANGED <<ingestVars, flaskVars, configVars, transformVars,
                   geoVars, trainerVars, ageVars>>

\* GET /health; healthy: DatabaseService.health_check's query went through.
health_check ==
    /\ started
    /\ \E healthy \in BOOLEAN :
          /\ db_service \/ ~healthy
          /\ last_read' = [path |-> "health_check", status |-> "200",
                           model_loaded |-> model,
                           preprocessor_loaded |-> preprocessor,
                           database_connected |-> db_service /\ healthy]
    /\ UNCHANGED predictVars
    /\ UNCHANGED <<ingestVars, flaskVars, configVars, transformVars,
                   geoVars, trainerVars, ageVars>>

\* What a listing or statistics endpoint answers about a table: 503 without
\* a database service; otherwise the rows, or none when the query failed
\* (the service's methods catch the failure and return the empty answer).
ReadAnswers(path, table) ==
    IF ~db_service
    THEN {[path |-> path, status |-> "503", count |-> 0]}
    ELSE {[path |-> path, status |-> "200", count |-> n] :
             n \in {0, Len(table)}}

\* GET /transactions/history
get_transaction_history ==
    /\ started
    /\ last_read' \in ReadAnswers("get_transaction_history", db_transactions)
    /\ UNCHANGED predictVars
    /\ UNCHANGED <<ingestVars, flaskVars, configVars, transformVars,
                   geoVars, trainerVars, ageVars>>

\* GET /transactions/stats
get_fraud_statistics ==
    /\ started
    /\ last_read' \in ReadAnswers("get_fraud_statistics", db_transactions)
    /\ UNCHANGED predictVars
    /\ UNCHANGED <<ingestVars, flaskVars, configVars, transformVars,
                   geoVars, trainerVars, ageVars>>

\* GET /transactions/flagged
get_flagged_transactions ==
    /\ started
    /\ last_read' \in ReadAnswers("get_flagged_transactions", db_flagged)
    /\ UNCHANGED predictVars
    /\ UNCHANGED <<ingestVars, flaskVars, configVars, transformVars,
                   geoVars, trainerVars, ageVars>>

----------------------------------------------------------------------------
(* The prediction pipelines *)

\* PredictPipeline() then .predict(input_df) of pipeline/predict_pipeline.py,
\* on a one-row frame.  The constructor loads both artifacts.
PredictPipeline_predict ==
    /\ Len(responses) < MaxRequests
    /\ \/ \* joblib.load raises in __init__
          /\ files[XgbModelPkl] # "ok" \/ files[PreprocessorPkl] # "ok"
          /\ responses' = Append(responses,
                [path |-> "PredictPipeline", status |-> "customException"])
       \/ \* transform or predict_proba raises
          /\ files[XgbModelPkl] = "ok" /\ files[PreprocessorPkl] = "ok"
          /\ responses' = Append(responses,
                [path |-> "PredictPipeline", status |-> "customException"])
       \/ /\ files[XgbModelPkl] = "ok" /\ files[PreprocessorPkl] = "ok"
          /\ \E p \in Probs :
                responses' = Append(responses,
                   [path |-> "PredictPipeline", status |-> "ok",
                    prob |-> p,
                    fraud_probability |-> p,
                    fraud_prediction |-> PipelineFraudPred(p),
                    decision |-> PipelineDecision(p)])
    /\ UNCHANGED <<files, started, model, preprocessor, db_service,
                   db_transactions, db_flagged>>
    /\ UNCHANGED <<ingestVars, flaskVars, configVars, transformVars,
                   geoVars, trainerVars, ageVars, readVars>>

\* Mutant of ModelPath: model.pkl is tried first.
ModelPath_ModelPklFirst ==
    IF files[ModelPkl] = "ok" THEN ModelPkl
    ELSE IF files[XgbModelPkl] = "ok" THEN XgbModelPkl
    ELSE "none"

\* The first model candidate that loads, in the order of model_candidates.
ModelPath ==
    IF files[XgbModelPkl] = "ok" THEN XgbModelPkl
    ELSE IF files[ModelPkl] = "ok" THEN ModelPkl
    ELSE "none"

\* The probabilities a model of each kind can give: predict_proba and
\* expit(decision_function) any value, predict only the labels 0.0 and 1.0.
ModelKinds == {"predict_proba", "decision_function", "predict"}

KindProbs(kind) ==
    IF kind = "predict" THEN {<<0, ProbDen>>, <<ProbDen, ProbDen>>} ELSE Probs

\* predictpipeline().predict(features) of src/pipeline/predict_pipeline.py,
\* on a one-row frame.
predictpipeline_predict ==
    /\ Len(responses) < MaxRequests
    /\ \/ \* no model candidate loads: FileNotFoundError, raised inside the
          \* try and re-raised as customException
          /\ ModelPath = "none"
          /\ responses' = Append(responses,
                [path |-> "predictpipeline", status |-> "customException",
                 cause |-> "FileNotFoundError", loaded |-> {}])
       \/ \* the preprocessor does not load
          /\ ModelPath # "none"
          /\ files[PreprocessorPkl] # "ok"
          /\ responses' = Append(responses,
                [path |-> "predictpipeline", status |-> "customException",
                 cause |-> "FileNotFoundError", loaded |-> {ModelPath}])
       \/ \* transform or the scoring call raises
          /\ ModelPath # "none"
          /\ files[PreprocessorPkl] = "ok"
          /\ responses' = Append(responses,
                [path |-> "predictpipeline", status |-> "customException",
                 cause |-> "Exception",
                 loaded |-> {ModelPath, PreprocessorPkl}])
       \/ /\ ModelPath # "none"
          /\ files[PreprocessorPkl] = "ok"
          /\ \E kind \in ModelKinds : \E p \in KindProbs(kind) :
                responses' = Append(responses,
                   [path |-> "predictpipeline", status |-> "ok",
                    prob |-> p,
                    fraud_probability |-> p,
                    fraud_prediction |-> LegacyFraudPred(p),
                    decision |-> LegacyDecision(LegacyFraudPred(p)),
                    loaded |-> {ModelPath, PreprocessorPkl}])
    /\ UNCHANGED <<files, started, model, preprocessor, db_service,
                   db_transactions, db_flagged>>
    /\ UNCHANGED <<ingestVars, flaskVars, configVars, transformVars,
                   geoVars, trainerVars, ageVars, readVars>>

PredictNext ==
    \/ load_artifacts
    \/ predict_fraud
    \/ PredictPipeline_predict
    \/ predictpipeline_predict

----------------------------------------------------------------------------
(* The legacy Flask API: CustomData and the /predict handler *)

\* The parameters of CustomData.__init__, every one with a default value.
Features ==
    {"amt", "city_pop", "lat", "long", "merch_lat", "merch_long",
     "distance_km", "txn_time_gap", "txn_count_1h", "avg_amt_per_card",
     "amt_deviation", "customer_age", "txn_hour", "is_weekend", "gender",
     "state", "category", "merchant", "cc_num"}

\* The request of test_predict_endpoint_missing_features.
IncompleteData == {"amt", "city_pop"}

\* The key sets of the JSON bodies the model posts: all features but a few,
\* the incomplete body of the test, the empty body.
KeySets ==
    {Features \ A : A \in {B \in SUBSET Features : Cardinality(B) <= MaxAbsent}}
        \cup {IncompleteData, {}}

\* A request: is_json, the keys of the body that are features, the keys
\* whose value is null, and whether the body has a key that is no feature.
FlaskRequests ==
    {[is_json |-> FALSE, keys |-> {}, nulls |-> {}, extra |-> FALSE]}
        \cup {[is_json |-> TRUE, keys |-> K, nulls |-> N, extra |-> e] :
                K \in KeySets,
                N \in {M \in SUBSET Features : Cardinality(M) <= MaxNull},
                e \in BOOLEAN}

WellFormed(req) == req.nulls \subseteq req.keys

\* The confidence of the Flask handler.
FlaskConfidence(p) ==
    IF ~GE(p, <<2, 10>>) \/ ~GE(<<8, 10>>, p) THEN "high"
    ELSE IF ~GE(p, <<4, 10>>) \/ ~GE(<<6, 10>>, p) THEN "medium"
    ELSE "low"

\* CustomData(**data): the features the body does not give take the
\* defaults of __init__.
DefaultedFeatures(req) == Features \ req.keys

\* The classes of the exception predict raises: whatever fails inside its
\* try is re-raised as customException(e, sys).  src/exception.py is not
\* among the sources; customException is the wrapper every component raises
\* for any error, a direct subclass of Exception.
customException_bases == {"customException", "Exception"}

\* The except clauses of the handler, in their order: ValueError,
\* FileNotFoundError, Exception.
FlaskStatus(bases) ==
    IF "ValueError" \in bases THEN "400"
    ELSE IF "FileNotFoundError" \in bases THEN "503"
    ELSE "500"

FlaskError(bases) ==
    IF "ValueError" \in bases THEN "str(e)"
    ELSE IF "FileNotFoundError" \in bases THEN "Model not available"
    ELSE "Internal server error"

\* POST /predict of the Flask app.  The pipeline it constructs is the one
\* of src/pipeline/predict_pipeline.py, the module it imports CustomData
\* from.  The handler keeps no state between requests (it reads only the
\* artifact files), so the model follows one request.
flask_predict ==
    \E req \in FlaskRequests :
        /\ flask_request = <<>>
        /\ WellFormed(req)
        /\ flask_request' = req
        /\ \/ /\ ~req.is_json
              /\ flask_response' =
                    [status |-> "400", error |-> "Request must be JSON",
                     scored |-> FALSE, defaulted |-> {}, raised |-> {}]
           \/ /\ req.is_json
              /\ req.keys = {} /\ ~req.extra
              /\ flask_response' =
                    [status |-> "400", error |-> "No data provided",
                     scored |-> FALSE, defaulted |-> {}, raised |-> {}]
           \/ \* CustomData(**data) raises TypeError on an unexpected key
              /\ req.is_json
              /\ req.extra
              /\ flask_response' =
                    [status |-> "400", error |-> "Invalid or missing fields",
                     scored |-> FALSE, defaulted |-> {},
                     raised |-> {"TypeError", "Exception"}]
           \/ \* predict re-raises whatever fails in it (no model or
              \* preprocessor loads, transform or the scoring call raises)
              \* as customException
              /\ req.is_json
              /\ req.keys # {} /\ ~req.extra
              /\ flask_response' =
                    [status |-> FlaskStatus(customException_bases),
                     error |-> FlaskError(customException_bases),
                     scored |-> FALSE, defaulted |-> DefaultedFeatures(req),
                     raised |-> customException_bases]
           \/ /\ req.is_json
              /\ req.keys # {} /\ ~req.extra
              /\ ModelPath # "none"
              /\ files[PreprocessorPkl] = "ok"
              /\ \E kind \in ModelKinds : \E p \in KindProbs(kind) :
                    flask_response' =
                        [status |-> "200", error |-> "",
                         scored |-> TRUE,
                         defaulted |-> DefaultedFeatures(req),
                         raised |-> {},
                         prob |-> p,
                         fraud_probability |-> Round4(p),
                         fraud_prediction |-> LegacyFraudPred(p),
                         decision |-> LegacyDecision(LegacyFraudPred(p)),
                         confidence |-> FlaskConfidence(p)]
        /\ UNCHANGED <<ingestVars, predictVars, configVars, transformVars,
                   geoVars, trainerVars, ageVars, readVars>>

FlaskNext == flask_predict

----------------------------------------------------------------------------
(* The preprocessor: the ColumnTransformer of get_preprocessor *)

\* The values a categorical column can hold, as integers.
CatValues == 1..MaxCat

CategoricalColumns == SeqRange(low_card_cat) \cup SeqRange(high_card_cat)

\* Mutant of OneHotEncoder_handle_unknown: the encoder's default.
OneHotEncoder_handle_unknown_Error == "error"

\* OneHotEncoder(handle_unknown='ignore')
OneHotEncoder_handle_unknown == "ignore"

\* OrdinalEncoder(handle_unknown='use_encoded_value', unknown_value=-1)
OrdinalEncoder_handle_unknown == "use_encoded_value"

unknown_value == -1

\* A transformer that raises gives no columns.
ValueError == <<>>

\* The position of v in the sorted categories, from 0.
CategoryIndex(cats, v) == Cardinality({c \in cats : c < v})

\* OneHotEncoder.transform of one value: one output column per fitted
\* category; an unseen value is all zeros under 'ignore' and an error
\* otherwise.
OneHotEncode(cats, v) ==
    IF v \in cats
    THEN [k \in 1..Cardinality(cats) |->
             IF k = CategoryIndex(cats, v) + 1 THEN 1 ELSE 0]
    ELSE IF OneHotEncoder_handle_unknown = "ignore"
         THEN [k \in 1..Cardinality(cats) |-> 0]
         ELSE ValueError

\* OrdinalEncoder.transform of one value: the index of its category; an
\* unseen value is unknown_value under 'use_encoded_value' and an error
\* otherwise.
OrdinalEncode(cats, v) ==
    IF v \in cats THEN <<CategoryIndex(cats, v)>>
    ELSE IF OrdinalEncoder_handle_unknown = "use_encoded_value"
         THEN <<unknown_value>>
         ELSE ValueError

\* One transformed column group of the row x.
EncodeColumn(cats, x, c) ==
    IF c \in SeqRange(low_card_cat) THEN OneHotEncode(cats[c], x[c])
    ELSE OrdinalEncode(cats[c], x[c])

\* preprocessor.transform(df) for a one-row frame: the scaled numeric
\* columns (one output column each), then the one-hot groups, then the
\* ordinal codes; an error of any transformer is the error of the call.
Transform(cats, x) ==
    IF \E c \in CategoricalColumns : EncodeColumn(cats, x, c) = ValueError
    THEN [status |-> "ValueError"]
    ELSE [status |-> "ok",
          num |-> Len(num_features),
          enc |-> [c \in CategoricalColumns |-> EncodeColumn(cats, x, c)]]

RECURSIVE SumLen(_, _)
SumLen(enc, C) ==
    IF C = {} THEN 0
    ELSE LET c == CHOOSE d \in C : TRUE
         IN  Len(enc[c]) + SumLen(enc, C \ {c})

\* The number of columns of a transformed row.
Width(out) == out.num + SumLen(out.enc, DOMAIN out.enc)

\* preprocessor.fit_transform(X_train): every categorical column keeps the
\* sorted distinct values of the training frame, here the values 1..k.
fit_transform ==
    /\ categories_ = <<>>
    /\ \E n \in [CategoricalColumns -> CatValues] :
          categories_' = [c \in CategoricalColumns |-> 1..n[c]]
    /\ UNCHANGED <<X, X_processed>>
    /\ UNCHANGED <<ingestVars, predictVars, flaskVars, configVars, geoVars, trainerVars, ageVars, readVars>>

\* preprocessor.transform(df) of a prediction path, on the fitted
\* preprocessor.  The call changes nothing in the preprocessor, so the
\* model follows one call.
transform ==
    /\ categories_ # <<>>
    /\ X = <<>>
    /\ \E x \in [CategoricalColumns -> CatValues] :
          /\ X' = x
          /\ X_processed' = Transform(categories_, x)
    /\ UNCHANGED categories_
    /\ UNCHANGED <<ingestVars, predictVars, flaskVars, configVars, geoVars, trainerVars, ageVars, readVars>>

TransformNext == fit_transform \/ transform

----------------------------------------------------------------------------
(* DataIngestion.haversine, in fixed-point arithmetic *)

\* Angles are in units of 1/Scale radian and the values of sin, cos and a
\* in units of 1/Scale.  Every operation rounds to the nearest unit, halves
\* away from zero, so that, as in IEEE arithmetic, op(-x) = -op(x).
Scale == 10000

EarthRadiusKm == 6371

Abs(x) == IF x >= 0 THEN x ELSE -x

\* x / d, rounded
RDiv(x, d) ==
    IF x >= 0 THEN (x + d \div 2) \div d ELSE -((-x + d \div 2) \div d)

\* a * b on scaled values
Mul(a, b) == RDiv(a * b, Scale)

\* math.radians: degrees times pi/180
Radians(deg) == RDiv(deg * 174533, 1000)

Pi == Radians(180)

HalfPi == Radians(90)

\* sin on [0, pi/2]: the series x - x^3/3! + x^5/5! - x^7/7! + x^9/9!
SinSeries(x) ==
    LET x2 == Mul(x, x)
        t3 == RDiv(Mul(x, x2), 6)
        t5 == RDiv(Mul(t3, x2), 20)
        t7 == RDiv(Mul(t5, x2), 42)
        t9 == RDiv(Mul(t7, x2), 72)
    IN  x - t3 + t5 - t7 + t9

\* math.sin: odd, of period 2 pi, symmetric about pi/2
Sin(x) ==
    LET y == Abs(x) % (2 * Pi)
        v == IF y <= HalfPi THEN SinSeries(y)
             ELSE IF y <= Pi THEN SinSeries(Pi - y)
             ELSE IF y <= Pi + HalfPi THEN -SinSeries(y - Pi)
             ELSE -SinSeries(2 * Pi - y)
    IN  IF x >= 0 THEN v ELSE -v

\* math.cos
Cos(x) == Sin(Abs(x) + HalfPi)

\* The largest r in lo..hi with r * r <= n
RECURSIVE SqrtSearch(_, _, _)
SqrtSearch(n, lo, hi) ==
    IF lo = hi THEN lo
    ELSE LET mid == (lo + hi + 1) \div 2
         IN  IF mid * mid <= n THEN SqrtSearch(n, mid, hi)
             ELSE SqrtSearch(n, lo, mid - 1)

\* math.sqrt of a scaled value in [0, 2]
Sqrt(a) == SqrtSearch(a * Scale, 0, 2 * Scale)

\* The largest angle in lo..hi whose sine is at most y
RECURSIVE AsinSearch(_, _, _)
AsinSearch(y, lo, hi) ==
    IF lo = hi THEN lo
    ELSE LET mid == (lo + hi + 1) \div 2
         IN  IF SinSeries(mid) <= y THEN AsinSearch(y, mid, hi)
             ELSE AsinSearch(y, lo, mid - 1)

\* math.asin on [0, 1]; outside [-1, 1] it raises ValueError (NaN here)
Asin(y) == IF y > Scale THEN NaN ELSE <<AsinSearch(y, 0, HalfPi)>>

\* Mutant of HaversineA: the cosine of the first latitude is taken twice.
HaversineA_CosLat1Twice(lat1, lon1, lat2, lon2) ==
    LET dlon == lon2 - lon1
        dlat == lat2 - lat1
        sdlat == Sin(RDiv(dlat, 2))
        sdlon == Sin(RDiv(dlon, 2))
    IN  Mul(sdlat, sdlat)
            + Mul(Mul(Cos(lat1), Cos(lat1)), Mul(sdlon, sdlon))

\* a = sin(dlat / 2) ** 2 + cos(lat1) * cos(lat2) * sin(dlon / 2) ** 2, on
\* angles in radians
HaversineA(lat1, lon1, lat2, lon2) ==
    LET dlon == lon2 - lon1
        dlat == lat2 - lat1
        sdlat == Sin(RDiv(dlat, 2))
        sdlon == Sin(RDiv(dlon, 2))
    IN  Mul(sdlat, sdlat)
            + Mul(Mul(Cos(lat1), Cos(lat2)), Mul(sdlon, sdlon))

\* haversine(lat1, lon1, lat2, lon2), arguments in degrees: the distance in
\* units of 1/Scale km, or NaN when asin raises.  No argument is checked.
Haversine(lat1, lon1, lat2, lon2) ==
    LET a == HaversineA(Radians(lat1), Radians(lon1),
                        Radians(lat2), Radians(lon2))
        h == IF a < 0 THEN NaN ELSE Asin(Sqrt(a))
    IN  IF h = NaN THEN NaN ELSE <<EarthRadiusKm * (2 * h[1])>>

\* The latitudes and longitudes of the model: a grid over the valid range
\* and a few values beyond each end of it.
Lats ==
    {(180 * k) \div GeoGrid - 90 : k \in 0..GeoGrid}
        \cup {90 + 10 * k : k \in 1..MaxExcess}
        \cup {-90 - 10 * k : k \in 1..MaxExcess}

Lons ==
    {(360 * k) \div GeoGrid - 180 : k \in 0..GeoGrid}
        \cup {180 + 10 * k : k \in 1..MaxExcess}
        \cup {-180 - 10 * k : k \in 1..MaxExcess}

\* One call of self.haversine, as df.apply makes for every row.  The
\* function is pure, so the model follows one call.
haversine ==
    /\ geo = <<>>
    /\ \E lat1 \in Lats, lon1 \in Lons, lat2 \in Lats, lon2 \in Lons :
          geo' = [lat1 |-> lat1, lon1 |-> lon1, lat2 |-> lat2, lon2 |-> lon2,
                  raised |-> Haversine(lat1, lon1, lat2, lon2) = NaN,
                  distance_km |-> Haversine(lat1, lon1, lat2, lon2)]
    /\ UNCHANGED <<ingestVars, predictVars, flaskVars, configVars,
                   transformVars, trainerVars, ageVars, readVars>>

GeoNext == haversine

----------------------------------------------------------------------------
(* _prepare_input of ModelTrainer.initiate_model_trainer.  An input is
   described by its container (form, dtype, ndim), its shape and, for a
   container of rows, its elements; matrices are known by kind and shape. *)

NoElems == <<>>

\* What an object array or a list may hold per sample: None, a scipy sparse
\* row (1 x cols) or a 1-D numeric array of cols values.
RowElems ==
    {[kind |-> "None", rows |-> 0, cols |-> 0]}
    \cup [kind : {"sparse", "dense"}, rows : {1}, cols : 1..MaxCols]

\* What a 0-d object array may wrap: None, a sparse matrix or a 2-D array.
WrappedElems ==
    {[kind |-> "None", rows |-> 0, cols |-> 0]}
    \cup [kind : {"sparse", "dense"}, rows : 0..MaxSamples, cols : 1..MaxCols]

RowSeqs == UNION {[1..n -> RowElems] : n \in 0..MaxSamples}

PrepareInputs ==
    \* X is None
    {[form |-> "None", dtype |-> "-", ndim |-> 0, rows |-> 0, cols |-> 0,
      elems |-> NoElems]}
    \* a scipy sparse matrix
    \cup {[form |-> "sparse", dtype |-> "float", ndim |-> 2, rows |-> r,
           cols |-> c, elems |-> NoElems] :
             r \in 0..MaxSamples, c \in 1..MaxCols}
    \* a numeric 2-D array
    \cup {[form |-> "ndarray", dtype |-> "float", ndim |-> 2, rows |-> r,
           cols |-> c, elems |-> NoElems] :
             r \in 0..MaxSamples, c \in 1..MaxCols}
    \* a numeric 1-D array of r values
    \cup {[form |-> "ndarray", dtype |-> "float", ndim |-> 1, rows |-> r,
           cols |-> 0, elems |-> NoElems] : r \in 0..MaxSamples}
    \* a 0-d object array around one element
    \cup {[form |-> "ndarray", dtype |-> "object", ndim |-> 0, rows |-> 0,
           cols |-> 0, elems |-> <<e>>] : e \in WrappedElems}
    \* a 1-D object array of rows
    \cup {[form |-> "ndarray", dtype |-> "object", ndim |-> 1,
           rows |-> Len(es), cols |-> 0, elems |-> es] : es \in RowSeqs}
    \* a list of rows
    \cup {[form |-> "list", dtype |-> "-", ndim |-> 1, rows |-> Len(es),
           cols |-> 0, elems |-> es] : es \in RowSeqs}

\* The number of samples an input stands for.
NumSamples(x) ==
    IF x.form = "ndarray" /\ x.dtype = "object" /\ x.ndim = 0
    THEN x.elems[1].rows
    ELSE x.rows

Returned(kind, rows, cols) ==
    [status |-> "returned", kind |-> kind, rows |-> rows, cols |-> cols]

Raised == [status |-> "raised", kind |-> "-", rows |-> 0, cols |-> 0]

\* return X
ReturnedAsIs(x) == Returned(x.form, x.rows, x.cols)

\* issparse(e) or hasattr(e, 'toarray')
IsSparseLike(e) == e.kind = "sparse"

\* sparse_rows = [e for e in elems if e is not None]
SparseRows(es) == SelectSeq(es, LAMBDA e : e.kind # "None")

\* scipy.sparse.vstack(rows): the blocks must have one column count.
SparseVstack(es) ==
    IF \A i, j \in 1..Len(es) :
          (es[i].kind # "None" /\ es[j].kind # "None")
          => es[i].cols = es[j].cols
    THEN Returned("sparse", Len(es),
                  IF \E i \in 1..Len(es) : es[i].kind # "None"
                  THEN es[CHOOSE i \in 1..Len(es) : es[i].kind # "None"].cols
                  ELSE 0)
    ELSE Raised

\* The width np.atleast_2d gives an element: a 1-D array is one row of its
\* length, None and a sparse matrix become a 1 x 1 object array.
Atleast2dWidth(e) == IF e.kind = "dense" THEN e.cols ELSE 1

\* np.vstack(elems): one row per element, all of one width.
NumpyVstack(es) ==
    IF \A i, j \in 1..Len(es) : Atleast2dWidth(es[i]) = Atleast2dWidth(es[j])
    THEN Returned("ndarray", Len(es), Atleast2dWidth(es[1]))
    ELSE Raised

_prepare_input(x) ==
    IF x.form = "None" THEN ReturnedAsIs(x)
    ELSE IF x.form = "sparse" THEN ReturnedAsIs(x)
    ELSE IF x.form = "ndarray" THEN
        IF x.dtype = "object" THEN
            IF x.ndim = 0
            THEN \* elem = X.item(): None gives X, a matrix gives the matrix
                 IF x.elems[1].kind = "None" THEN ReturnedAsIs(x)
                 ELSE Returned(IF x.elems[1].kind = "sparse" THEN "sparse"
                               ELSE "ndarray",
                               x.elems[1].rows, x.elems[1].cols)
            ELSE IF Len(x.elems) = 0 THEN Returned("ndarray", 0, 0)
            ELSE IF \A i \in 1..Len(x.elems) : x.elems[i].kind = "None"
                 THEN ReturnedAsIs(x)
            ELSE IF \A i \in 1..Len(x.elems) :
                        x.elems[i].kind = "None" \/ IsSparseLike(x.elems[i])
                 THEN SparseVstack(SparseRows(x.elems))
            ELSE \* try np.vstack(elems), except: return X
                 IF NumpyVstack(x.elems) = Raised THEN ReturnedAsIs(x)
                 ELSE NumpyVstack(x.elems)
        ELSE IF x.ndim = 1 THEN Returned("ndarray", x.rows, 1)
        ELSE ReturnedAsIs(x)
    ELSE \* list or tuple
        IF Len(x.elems) = 0 THEN Returned("ndarray", 0, 0)
        ELSE IF \A i \in 1..Len(x.elems) : IsSparseLike(x.elems[i])
             THEN SparseVstack(x.elems)
        ELSE NumpyVstack(x.elems)

\* One call of _prepare_input, as made for X_train and for X_test.
prepare_input ==
    /\ prepared = <<>>
    /\ \E x \in PrepareInputs :
          prepared' = [X |-> x, out |-> _prepare_input(x)]
    /\ UNCHANGED <<ingestVars, predictVars, flaskVars, configVars,
                   transformVars, geoVars, ageVars, readVars>>

TrainerNext == prepare_input

----------------------------------------------------------------------------
(* customer_age: ((trans_date_trans_time - dob).dt.days // 365), on
   timestamps counted in seconds *)

NaT == <<>>

\* Days around the year boundaries, times of day around midnight.
AgeDates == {y * YearDays + o : y \in 0..MaxYears, o \in {0, 1, YearDays - 1}}
AgeTimes == {d * DaySeconds + t : d \in AgeDates, t \in {0, 1, DaySeconds - 1}}

\* Floor and truncating division by a positive number.
FloorDiv(a, b) == IF a >= 0 THEN a \div b ELSE -((-a + b - 1) \div b)
TruncDiv(a, b) == IF a >= 0 THEN a \div b ELSE -((-a) \div b)

\* .dt.days: the days component of the timedelta, negative deltas rounded
\* down (Timedelta(-1s) is -1 days +23:59:59).
DtDays(td) == IF td = NaT THEN NaN ELSE <<FloorDiv(td[1], DaySeconds)>>

\* Series // 365: floor division, NaN stays NaN.
FloorDivYear(v) == IF v = NaN THEN NaN ELSE <<FloorDiv(v[1], YearDays)>>

\* Mutant of customer_age: the division truncates towards zero.
customer_age_Truncating(ts, dob) ==
    IF dob = NaT THEN NaN
    ELSE <<TruncDiv(FloorDiv(ts[1] - dob[1], DaySeconds), YearDays)>>

customer_age(ts, dob) ==
    FloorDivYear(DtDays(IF dob = NaT THEN NaT ELSE <<ts[1] - dob[1]>>))

\* The customer_age column of one row.
derive_customer_age ==
    /\ aged = <<>>
    /\ \E t \in AgeTimes, b \in AgeTimes \cup {-1} :
          LET ts  == <<t>>
              dob == IF b = -1 THEN NaT ELSE <<b>>
          IN  aged' = [ts |-> ts, dob |-> dob,
                       customer_age |-> customer_age(ts, dob)]
    /\ UNCHANGED <<ingestVars, predictVars, flaskVars, configVars,
                   transformVars, geoVars, trainerVars, readVars>>

AgeNext == derive_customer_age

----------------------------------------------------------------------------
(* Specifications *)

\* The bulk derivation alone: an empty file, no artifacts, no requests.
InitIngest ==
    /\ raw = <<>>
    /\ df = <<>>
    /\ ipc = "load"
    /\ files = [f \in ArtifactFiles |-> "missing"]
    /\ started = FALSE
    /\ model = FALSE
    /\ preprocessor = FALSE
    /\ db_service = FALSE
    /\ responses = <<>>
    /\ db_transactions = <<>>
    /\ db_flagged = <<>>
    /\ flask_request = <<>>
    /\ flask_response = <<>>
    /\ fraud_probability_threshold = DefaultThreshold
    /\ categories_ = <<>>
    /\ X = <<>>
    /\ X_processed = <<>>
    /\ train_set = <<>>
    /\ test_set = <<>>
    /\ geo = <<>>
    /\ prepared = <<>>
    /\ aged = <<>>
    /\ last_read = <<>>
    /\ request_pool = {[cc_num |-> 1, txn_count_1h |-> 1]}

SpecIngest == InitIngest /\ [][IngestNext]_vars

\* The prediction paths alone: the module-level state of backend_api
\* (model = None, preprocessor = None, db_service = None) over any state of
\* the artifact files, and no dataset.
InitPredict ==
    /\ files \in [ArtifactFiles -> FileStates]
    /\ started = FALSE
    /\ model = FALSE
    /\ preprocessor = FALSE
    /\ db_service = FALSE
    /\ responses = <<>>
    /\ db_transactions = <<>>
    /\ db_flagged = <<>>
    /\ raw = <<>>
    /\ df = <<>>
    /\ ipc = "load"
    /\ flask_request = <<>>
    /\ flask_response = <<>>
    /\ fraud_probability_threshold \in Thresholds
    /\ categories_ = <<>>
    /\ X = <<>>
    /\ X_processed = <<>>
    /\ train_set = <<>>
    /\ test_set = <<>>
    /\ geo = <<>>
    /\ prepared = <<>>
    /\ aged = <<>>
    /\ last_read = <<>>
    /\ request_pool = {[cc_num |-> 1, txn_count_1h |-> 1]}

SpecPredict == InitPredict /\ [][PredictNext]_vars

\* The Flask app alone, over any state of the artifact files.
InitFlask ==
    /\ files \in [ArtifactFiles -> FileStates]
    /\ flask_request = <<>>
    /\ flask_response = <<>>
    /\ started = FALSE
    /\ model = FALSE
    /\ preprocessor = FALSE
    /\ db_service = FALSE
    /\ responses = <<>>
    /\ db_transactions = <<>>
    /\ db_flagged = <<>>
    /\ raw = <<>>
    /\ df = <<>>
    /\ ipc = "load"
    /\ fraud_probability_threshold = DefaultThreshold
    /\ categories_ = <<>>
    /\ X = <<>>
    /\ X_processed = <<>>
    /\ train_set = <<>>
    /\ test_set = <<>>
    /\ geo = <<>>
    /\ prepared = <<>>
    /\ aged = <<>>
    /\ last_read = <<>>
    /\ request_pool = {[cc_num |-> 1, txn_count_1h |-> 1]}

SpecFlask == InitFlask /\ [][FlaskNext]_vars

\* The preprocessor alone: not fitted yet, the artifacts in place.
InitTransform ==
    /\ files = [f \in ArtifactFiles |-> "ok"]
    /\ flask_request = <<>>
    /\ flask_response = <<>>
    /\ started = FALSE
    /\ model = FALSE
    /\ preprocessor = FALSE
    /\ db_service = FALSE
    /\ responses = <<>>
    /\ db_transactions = <<>>
    /\ db_flagged = <<>>
    /\ raw = <<>>
    /\ df = <<>>
    /\ ipc = "load"
    /\ fraud_probability_threshold = DefaultThreshold
    /\ categories_ = <<>>
    /\ X = <<>>
    /\ X_processed = <<>>
    /\ train_set = <<>>
    /\ test_set = <<>>
    /\ geo = <<>>
    /\ prepared = <<>>
    /\ aged = <<>>
    /\ last_read = <<>>
    /\ request_pool = {[cc_num |-> 1, txn_count_1h |-> 1]}

SpecTransform == InitTransform /\ [][TransformNext]_vars

\* The distance function alone.
InitGeo ==
    /\ files = [f \in ArtifactFiles |-> "ok"]
    /\ flask_request = <<>>
    /\ flask_response = <<>>
    /\ started = FALSE
    /\ model = FALSE
    /\ preprocessor = FALSE
    /\ db_service = FALSE
    /\ responses = <<>>
    /\ db_transactions = <<>>
    /\ db_flagged = <<>>
    /\ raw = <<>>
    /\ df = <<>>
    /\ ipc = "load"
    /\ fraud_probability_threshold = DefaultThreshold
    /\ categories_ = <<>>
    /\ X = <<>>
    /\ X_processed = <<>>
    /\ train_set = <<>>
    /\ test_set = <<>>
    /\ geo = <<>>
    /\ prepared = <<>>
    /\ aged = <<>>
    /\ last_read = <<>>
    /\ request_pool = {[cc_num |-> 1, txn_count_1h |-> 1]}

SpecGeo == InitGeo /\ [][GeoNext]_vars

\* The FastAPI backend serving several clients: the artifacts in place, any
\* request body.
InitRealtime ==
    /\ files = [f \in ArtifactFiles |-> "ok"]
    /\ started = FALSE
    /\ model = FALSE
    /\ preprocessor = FALSE
    /\ db_service = FALSE
    /\ responses = <<>>
    /\ db_transactions = <<>>
    /\ db_flagged = <<>>
    /\ raw = <<>>
    /\ df = <<>>
    /\ ipc = "load"
    /\ flask_request = <<>>
    /\ flask_response = <<>>
    /\ fraud_probability_threshold = DefaultThreshold
    /\ categories_ = <<>>
    /\ X = <<>>
    /\ X_processed = <<>>
    /\ train_set = <<>>
    /\ test_set = <<>>
    /\ geo = <<>>
    /\ prepared = <<>>
    /\ aged = <<>>
    /\ last_read = <<>>
    /\ request_pool = TransactionRequests

RealtimeNext == load_artifacts \/ predict_fraud

SpecRealtime == InitRealtime /\ [][RealtimeNext]_vars

\* The model trainer's input normalisation alone.
InitTrainer ==
    /\ files = [f \in ArtifactFiles |-> "ok"]
    /\ flask_request = <<>>
    /\ flask_response = <<>>
    /\ started = FALSE
    /\ model = FALSE
    /\ preprocessor = FALSE
    /\ db_service = FALSE
    /\ responses = <<>>
    /\ db_transactions = <<>>
    /\ db_flagged = <<>>
    /\ raw = <<>>
    /\ df = <<>>
    /\ ipc = "load"
    /\ fraud_probability_threshold = DefaultThreshold
    /\ categories_ = <<>>
    /\ X = <<>>
    /\ X_processed = <<>>
    /\ train_set = <<>>
    /\ test_set = <<>>
    /\ geo = <<>>
    /\ prepared = <<>>
    /\ aged = <<>>
    /\ last_read = <<>>
    /\ request_pool = {[cc_num |-> 1, txn_count_1h |-> 1]}

SpecTrainer == InitTrainer /\ [][TrainerNext]_vars

\* The FastAPI backend with all its endpoints, over any state of the
\* artifact files.
InitBackend ==
    /\ files \in [ArtifactFiles -> FileStates]
    /\ started = FALSE
    /\ model = FALSE
    /\ preprocessor = FALSE
    /\ db_service = FALSE
    /\ responses = <<>>
    /\ db_transactions = <<>>
    /\ db_flagged = <<>>
    /\ raw = <<>>
    /\ df = <<>>
    /\ ipc = "load"
    /\ flask_request = <<>>
    /\ flask_response = <<>>
    /\ fraud_probability_threshold = DefaultThreshold
    /\ categories_ = <<>>
    /\ X = <<>>
    /\ X_processed = <<>>
    /\ train_set = <<>>
    /\ test_set = <<>>
    /\ geo = <<>>
    /\ prepared = <<>>
    /\ aged = <<>>
    /\ last_read = <<>>
    /\ request_pool = {[cc_num |-> 1, txn_count_1h |-> 1]}

BackendNext ==
    \/ load_artifacts
    \/ predict_fraud
    \/ health_check
    \/ get_transaction_history
    \/ get_fraud_statistics
    \/ get_flagged_transactions

SpecBackend == InitBackend /\ [][BackendNext]_vars

\* The customer_age column alone.
InitAge ==
    /\ files = [f \in ArtifactFiles |-> "ok"]
    /\ flask_request = <<>>
    /\ flask_response = <<>>
    /\ started = FALSE
    /\ model = FALSE
    /\ preprocessor = FALSE
    /\ db_service = FALSE
    /\ responses = <<>>
    /\ db_transactions = <<>>
    /\ db_flagged = <<>>
    /\ raw = <<>>
    /\ df = <<>>
    /\ ipc = "load"
    /\ fraud_probability_threshold = DefaultThreshold
    /\ categories_ = <<>>
    /\ X = <<>>
    /\ X_processed = <<>>
    /\ train_set = <<>>
    /\ test_set = <<>>
    /\ geo = <<>>
    /\ prepared = <<>>
    /\ aged = <<>>
    /\ last_read = <<>>
    /\ request_pool = {[cc_num |-> 1, txn_count_1h |-> 1]}

SpecAge == InitAge /\ [][AgeNext]_vars

----------------------------------------------------------------------------
(* Reference notions of the specification, stated on the raw rows *)

\* The causal prefix of row T: the rows of T's card strictly earlier in time.
CausalPrefix(r, T) ==
    {j \in 1..Len(r) : r[j].cc_num = T.cc_num /\ r[j].ts < T.ts}

\* The timeline entries before T: earlier in time, or at the same time and
\* earlier in the file.
TimelineBefore(r, T) ==
    {j \in 1..Len(r) :
        /\ r[j].cc_num = T.cc_num
        /\ r[j].ts < T.ts \/ (r[j].ts = T.ts /\ r[j].id < T.id)}

\* T is the first transaction of its card.
IsFirstOfCard(r, T) == TimelineBefore(r, T) = {}

RowOf(frame, id) == frame[CHOOSE i \in 1..Len(frame) : frame[i].id = id]

RemoveAt(r, j) ==
    [k \in 1..(Len(r) - 1) |-> IF k < j THEN r[k] ELSE r[k + 1]]

Stats(row) ==
    <<row.txn_time_gap, row.txn_count_1h, row.avg_amt_per_card,
      row.amt_deviation, row.is_new_merchant>>

----------------------------------------------------------------------------
(* Claims about the bulk derivation *)

\* C1: causality.  Every derived statistic of a transaction T is unchanged
\* when a transaction of the same card with a timestamp greater than or
\* equal to T's is removed from the dataset.
C1_Causality ==
    ipc = "done" =>
        \A i \in 1..Len(df) : \A j \in 1..Len(raw) :
            (/\ raw[j].id # df[i].id
             /\ raw[j].cc_num = df[i].cc_num
             /\ raw[j].ts >= df[i].ts)
            => Stats(RowOf(Derive(RemoveAt(raw, j)), df[i].id)) = Stats(df[i])

\* C5: txn_time_gap is the number of seconds between T and the previous
\* transaction of its card, whatever the length of the gap, and 0 for the
\* card's first transaction.
C5_TimeGapIsTotalSeconds ==
    ipc = "done" =>
        \A i \in 1..Len(df) :
            LET B == TimelineBefore(raw, df[i])
            IN  df[i].txn_time_gap =
                    IF B = {} THEN <<0>>
                    ELSE <<df[i].ts - SetMax({raw[j].ts : j \in B})>>

\* C6: txn_count_1h is one plus the number of transactions of the card that
\* are strictly earlier than T and within the hour that ends at T; a
\* transaction with T's own timestamp is not counted.
C6_CountExcludesPeers ==
    ipc = "done" =>
        \A i \in 1..Len(df) :
            df[i].txn_count_1h =
                1 + Cardinality({j \in CausalPrefix(raw, df[i]) :
                                    raw[j].ts > df[i].ts - HourSeconds})

\* C7: avg_amt_per_card is the mean amount of the causal prefix (the card's
\* transactions strictly before T), and the global median amount when the
\* causal prefix is empty.
C7_AvgOverCausalPrefix ==
    ipc = "done" =>
        \A i \in 1..Len(df) :
            LET P == CausalPrefix(raw, df[i])
            IN  df[i].avg_amt_per_card =
                    IF P = {} THEN Median(raw)
                    ELSE Rat(SumAmt(raw, P), Cardinality(P))

\* C8: the first transaction of every card has txn_time_gap 0, txn_count_1h
\* 1, avg_amt_per_card equal to the global median amount and is_new_merchant
\* 1; no derived statistic of any transaction is null.
C8_EmptyHistoryDefaults ==
    ipc = "done" =>
        \A i \in 1..Len(df) :
            /\ df[i].txn_time_gap # NaN
            /\ df[i].avg_amt_per_card # NaN
            /\ df[i].amt_deviation # NaN
            /\ IsFirstOfCard(raw, df[i]) =>
                  /\ df[i].txn_time_gap = <<0>>
                  /\ df[i].txn_count_1h = 1
                  /\ df[i].avg_amt_per_card = Median(raw)
                  /\ df[i].is_new_merchant = 1

\* C8 witness: a derived frame with two cards, one of them with a later
\* transaction, so that first and non-first rows both occur.
C8_Witness ==
    /\ ipc = "done"
    /\ \E i, j, k \in 1..Len(df) :
          /\ df[i].cc_num # df[j].cc_num
          /\ IsFirstOfCard(raw, df[i]) /\ IsFirstOfCard(raw, df[j])
          /\ df[k].cc_num = df[i].cc_num /\ ~IsFirstOfCard(raw, df[k])
          /\ df[i].amt # df[j].amt

\* C9: is_new_merchant is 1 exactly when T's merchant appears in no
\* transaction of the causal prefix (strictly earlier timestamp, same card).
C9_NewMerchantOverCausalPrefix ==
    ipc = "done" =>
        \A i \in 1..Len(df) :
            df[i].is_new_merchant = 1 <=>
                ~\E j \in CausalPrefix(raw, df[i]) :
                    raw[j].merchant = df[i].merchant

----------------------------------------------------------------------------
(* Claims about the prediction paths *)

OkResponses(path) ==
    {i \in 1..Len(responses) :
        /\ responses[i].path = path
        /\ responses[i].status \in {"200", "ok"}}

Scored == {i \in 1..Len(responses) : responses[i].status \in {"200", "ok"}}

\* C2: in predict_fraud, p >= 0.8 gives BLOCK/high, 0.5 <= p < 0.8 gives
\* REVIEW/medium, 0.2 <= p < 0.5 gives ALLOW/medium and p < 0.2 gives
\* ALLOW/high, for the probability n/d of every successful response.
C2_DecisionTiering ==
    \A i \in OkResponses("predict_fraud") :
        LET n == responses[i].prob[1]
            d == responses[i].prob[2]
            r == responses[i]
        IN  /\ 10 * n >= 8 * d =>
                r.decision = "BLOCK" /\ r.confidence = "high"
            /\ (10 * n >= 5 * d /\ 10 * n < 8 * d) =>
                r.decision = "REVIEW" /\ r.confidence = "medium"
            /\ (10 * n >= 2 * d /\ 10 * n < 5 * d) =>
                r.decision = "ALLOW" /\ r.confidence = "medium"
            /\ 10 * n < 2 * d =>
                r.decision = "ALLOW" /\ r.confidence = "high"

\* C2 witness: predict_fraud has answered a request with p exactly 0.5 and
\* one with p exactly 0.8.
C2_Witness ==
    \E i, j \in OkResponses("predict_fraud") :
        /\ 10 * responses[i].prob[1] = 5 * responses[i].prob[2]
        /\ responses[i].decision = "REVIEW"
        /\ 10 * responses[j].prob[1] = 8 * responses[j].prob[2]
        /\ responses[j].decision = "BLOCK"

\* C3: in every prediction path, fraud_prediction is 1 exactly when the
\* probability is at least 0.5.
C3_PredictionThreshold ==
    \A i \in Scored :
        /\ responses[i].fraud_prediction \in {0, 1}
        /\ responses[i].fraud_prediction = 1 <=>
              2 * responses[i].prob[1] >= responses[i].prob[2]

\* C3 witness: one pipeline has scored p exactly 0.5 as fraud and the other
\* a p between 0.2 and 0.5 as no fraud.
C3_Witness ==
    \E i \in OkResponses("predictpipeline"), j \in OkResponses("PredictPipeline") :
        /\ 2 * responses[i].prob[1] = responses[i].prob[2]
        /\ responses[i].fraud_prediction = 1
        /\ 2 * responses[j].prob[1] < responses[j].prob[2]
        /\ 10 * responses[j].prob[1] >= 2 * responses[j].prob[2]
        /\ responses[j].fraud_prediction = 0

Severity(decision) ==
    IF decision = "ALLOW" THEN 0 ELSE IF decision = "REVIEW" THEN 1 ELSE 2

\* C4: within one prediction path, a smaller probability never gets a more
\* severe decision than a larger one (ALLOW < REVIEW < BLOCK).
C4_Monotonicity ==
    \A i, j \in Scored :
        (/\ responses[i].path = responses[j].path
         /\ responses[i].prob[1] * responses[j].prob[2]
                < responses[j].prob[1] * responses[i].prob[2])
        => Severity(responses[i].decision) <= Severity(responses[j].decision)

\* C4 witness: one path has decided two different probabilities
\* differently.
C4_Witness ==
    \E i, j \in OkResponses("PredictPipeline") :
        /\ responses[i].prob[1] < responses[j].prob[1]
        /\ responses[i].decision = "REVIEW"
        /\ responses[j].decision = "BLOCK"

\* C10: a JSON request in which a recognized feature is absent or null is
\* rejected before the preprocessor and the scorer are invoked: it is never
\* answered 200 with a score computed from a default value.  (The claim
\* also fixes the status of the rejection, 400; the part stated here is the
\* one that does not depend on the artifacts being present.)
C10_MissingFeatureRejected ==
    (/\ flask_request # <<>>
     /\ flask_request.is_json
     /\ flask_request.keys # Features \/ flask_request.nulls # {})
    => /\ flask_response.status # "200"
       /\ ~flask_response.scored

\* C11: in predict_fraud, while the model or the preprocessor is not loaded,
\* every /predict request is answered 503 and nothing else: the response
\* carries no probability and no decision (the preprocessor and the scorer
\* were not called), and nothing is written to the database.
C11_ModelUnavailable ==
    (started /\ (~model \/ ~preprocessor)) =>
        /\ \A i \in 1..Len(responses) :
              responses[i].path = "predict_fraud" =>
                  /\ responses[i].status = "503"
                  /\ DOMAIN responses[i] = {"path", "status"}
        /\ db_transactions = <<>>
        /\ db_flagged = <<>>

\* C11 witness: the model is loaded, the preprocessor is not, the database
\* service is up, and predict_fraud has answered two requests.
C11_Witness ==
    /\ started /\ model /\ ~preprocessor /\ db_service
    /\ Len(responses) = 2
    /\ \A i \in 1..2 :
          responses[i].path = "predict_fraud" /\ responses[i].status = "503"

\* C12: when no model artifact loads, predict fails with an exception its
\* caller catches as FileNotFoundError: the Flask handler answers a valid
\* request (all 19 features, none null) with 503 'Model not available', not
\* with 500.
C12_NoModelIs503 ==
    (/\ flask_request # <<>>
     /\ flask_request.is_json
     /\ flask_request.keys = Features
     /\ flask_request.nulls = {}
     /\ ~flask_request.extra
     /\ ModelPath = "none")
    => /\ "FileNotFoundError" \in flask_response.raised
       /\ flask_response.status = "503"
       /\ flask_response.error = "Model not available"

\* C13: the threshold of fraud_prediction is the configured one: for the
\* configured fraud_probability_threshold t, every scored response has
\* fraud_prediction = 1 exactly when its probability is at least t.
C13_ConfiguredThreshold ==
    \A i \in Scored :
        responses[i].fraud_prediction = 1 <=>
            GE(responses[i].prob, fraud_probability_threshold)

\* C14: the recognized feature set is the same set of 19 names in every
\* component: the columns of CustomData.get_data_as_data_frame, the columns
\* the preprocessor consumes, PredictionConfig.required_features and the
\* fields of TransactionRequest each hold exactly these names, none
\* missing, none extra, none twice, at every prediction call.
C14_SameFeatureSet ==
    LET Recognized ==
            {"amt", "city_pop", "lat", "long", "merch_lat", "merch_long",
             "distance_km", "txn_time_gap", "txn_count_1h",
             "avg_amt_per_card", "amt_deviation", "customer_age", "txn_hour",
             "is_weekend", "gender", "state", "category", "merchant",
             "cc_num"}
    IN  \A i \in 1..Len(responses) :
            \A q \in {get_data_as_data_frame_columns, PreprocessorColumns,
                      required_features, TransactionRequest_fields} :
                /\ SeqRange(q) = Recognized
                /\ Len(q) = Cardinality(Recognized)

\* C14 witness: predict_fraud has scored a request, that is, the frame of
\* the TransactionRequest fields went through preprocessor.transform.
C14_Witness ==
    \E i \in OkResponses("predict_fraud") : responses[i].status = "200"

\* C15: transform never fails on a categorical value that was not seen at
\* fit time: an unseen gender, state or category becomes an all-zero
\* one-hot group, an unseen merchant or cc_num becomes -1, and the row is as
\* wide as the row of known values.
C15_UnseenCategoryEncoded ==
    X # <<>> =>
        /\ X_processed.status = "ok"
        /\ \A c \in SeqRange(low_card_cat) :
              X[c] \notin categories_[c] =>
                  \A k \in 1..Len(X_processed.enc[c]) :
                      X_processed.enc[c][k] = 0
        /\ \A c \in SeqRange(high_card_cat) :
              X[c] \notin categories_[c] => X_processed.enc[c] = <<-1>>
        /\ Width(X_processed) =
              Width(Transform(categories_,
                              [c \in CategoricalColumns |-> 1]))

\* C15 witness: a row with an unseen state and an unseen merchant, and a
\* known gender, was transformed.
C15_Witness ==
    /\ X # <<>>
    /\ X["state"] \notin categories_["state"]
    /\ X["merchant"] \notin categories_["merchant"]
    /\ X["gender"] \in categories_["gender"]
    /\ Cardinality(categories_["gender"]) = 2

\* C16: every result of a prediction pipeline's predict has its
\* fraud_probability in [0, 1], its fraud_prediction in {0, 1} and its
\* decision in {ALLOW, BLOCK}, BLOCK exactly when fraud_prediction is 1;
\* REVIEW is never returned by a pipeline.
C16_PipelineOutputFormat ==
    \A i \in OkResponses("predictpipeline") \cup OkResponses("PredictPipeline") :
        LET r == responses[i]
        IN  /\ GE(r.fraud_probability, <<0, 1>>)
            /\ GE(<<1, 1>>, r.fraud_probability)
            /\ r.fraud_prediction \in {0, 1}
            /\ r.decision \in {"ALLOW", "BLOCK"}
            /\ r.decision = "BLOCK" <=> r.fraud_prediction = 1

----------------------------------------------------------------------------
(* Claims about the distance function *)

ValidCoordinate(lat, lon) ==
    lat >= -90 /\ lat <= 90 /\ lon >= -180 /\ lon <= 180

\* C19: a latitude outside [-90, 90] or a longitude outside [-180, 180],
\* of the customer or of the merchant, is rejected with an error by the
\* distance computation of the ingestion: no distance is produced from it.
C19_InvalidCoordinateRejected ==
    (/\ geo # <<>>
     /\ \/ ~ValidCoordinate(geo.lat1, geo.lon1)
        \/ ~ValidCoordinate(geo.lat2, geo.lon2))
    => /\ geo.raised
       /\ geo.distance_km = NaN

\* C20: haversine is symmetric.  For valid coordinates the distance from A
\* to B and the distance from B to A differ by at most 1e-6 km, and the
\* distance is an arc of a sphere of radius 6371 km: at most 6371 * pi.
C20_Symmetry ==
    (/\ geo # <<>>
     /\ ValidCoordinate(geo.lat1, geo.lon1)
     /\ ValidCoordinate(geo.lat2, geo.lon2))
    => LET ab == geo.distance_km
           ba == Haversine(geo.lat2, geo.lon2, geo.lat1, geo.lon1)
       IN  /\ ab # NaN
           /\ ba # NaN
           /\ Abs(ab[1] - ba[1]) <= Scale \div 1000000
           /\ ab[1] >= 0
           /\ ab[1] <= 6371 * Pi

\* C20 witness: the distance between two valid points that differ in
\* latitude and in longitude, neither on the equator, was computed.
C20_Witness ==
    /\ geo # <<>>
    /\ ValidCoordinate(geo.lat1, geo.lon1)
    /\ ValidCoordinate(geo.lat2, geo.lon2)
    /\ Abs(geo.lat1) # Abs(geo.lat2)
    /\ geo.lon1 # geo.lon2
    /\ geo.distance_km # NaN
    /\ geo.distance_km[1] > 0

\* C21: real-time scoring is serialized per card.  Two requests for the
\* same card that arrive within the hour are never scored against the same
\* causal prefix: the counts of the last hour they are scored with differ,
\* as if the requests were processed one after the other.
C21_PerCardSerialization ==
    \A i, j \in OkResponses("predict_fraud") :
        (i < j /\ responses[i].df.cc_num = responses[j].df.cc_num)
        => responses[i].df.txn_count_1h # responses[j].df.txn_count_1h

\* The tier rules: decision, confidence and fraud_prediction of a
\* probability q.
TierDecision(q) ==
    IF 10 * q[1] >= 8 * q[2] THEN "BLOCK"
    ELSE IF 10 * q[1] >= 5 * q[2] THEN "REVIEW"
    ELSE "ALLOW"

TierConfidence(q) ==
    IF 10 * q[1] >= 8 * q[2] THEN "high"
    ELSE IF 10 * q[1] >= 2 * q[2] THEN "medium"
    ELSE "high"

TierPrediction(q) == IF 10 * q[1] >= 5 * q[2] THEN 1 ELSE 0

\* C22: in every successful /predict response, decision, confidence and
\* fraud_prediction are those the tier rules give to the fraud_probability
\* of that response (the value rounded to 4 decimals), and the same holds
\* of every record logged to the table of transactions.
C22_ConsistentWithReturnedProbability ==
    /\ \A i \in OkResponses("predict_fraud") :
          LET r == responses[i]
          IN  /\ r.decision = TierDecision(r.fraud_probability)
              /\ r.confidence = TierConfidence(r.fraud_probability)
              /\ r.fraud_prediction = TierPrediction(r.fraud_probability)
    /\ \A k \in 1..Len(db_transactions) :
          LET t == db_transactions[k]
          IN  /\ t.decision = TierDecision(t.fraud_probability)
              /\ t.fraud_prediction = TierPrediction(t.fraud_probability)

----------------------------------------------------------------------------
(* Database logging of POST /predict *)

\* The scored predict_fraud responses handled with a database service.
LoggedResponses ==
    {i \in OkResponses("predict_fraud") : responses[i].logging.service}

\* The id the insert of response i returned: ids are given in insert order.
InsertedId(i) ==
    Cardinality({j \in OkResponses("predict_fraud") :
                    j <= i /\ responses[j].logging.inserted})

\* The flagged records written for response i.
FlaggedRowsOf(i) ==
    {k \in 1..Len(db_flagged) :
        /\ responses[i].logging.inserted
        /\ db_flagged[k].transaction_id = InsertedId(i)}

\* C23 as stated: for each request handled with a database service a
\* flagged record is written if and only if the decision is REVIEW or BLOCK
\* and the transaction insert returned a record.
C23_FlaggedIffReviewOrBlock ==
    \A i \in LoggedResponses :
        (FlaggedRowsOf(i) # {})
        <=> (/\ responses[i].decision \in {"REVIEW", "BLOCK"}
             /\ responses[i].logging.inserted)

\* C23 amended: the write of a flagged record is attempted if and only if
\* the decision is REVIEW or BLOCK and the transaction insert returned a
\* record, and the record exists exactly when that attempt's own insert
\* succeeded; every flagged record refers to an inserted transaction row of
\* decision REVIEW or BLOCK by its id, with risk_level CRITICAL for BLOCK
\* and HIGH for REVIEW, and no transaction is flagged twice.
C23_FlaggedWhenFlagInsertSucceeds ==
    /\ \A i \in LoggedResponses :
          LET r == responses[i]
          IN  /\ r.logging.flag_called
                 <=> (r.decision \in {"REVIEW", "BLOCK"} /\ r.logging.inserted)
              /\ (FlaggedRowsOf(i) # {})
                 <=> (r.logging.flag_called /\ r.logging.flag_ok)
    /\ \A k \in 1..Len(db_flagged) :
          LET f == db_flagged[k]
          IN  /\ f.transaction_id \in 1..Len(db_transactions)
              /\ db_transactions[f.transaction_id].id = f.transaction_id
              /\ db_transactions[f.transaction_id].decision
                    \in {"REVIEW", "BLOCK"}
              /\ f.risk_level =
                    IF db_transactions[f.transaction_id].decision = "BLOCK"
                    THEN "CRITICAL" ELSE "HIGH"
              /\ \A l \in 1..Len(db_flagged) :
                    db_flagged[l].transaction_id = f.transaction_id => l = k

\* A REVIEW whose flagged record was written as HIGH, next to a request
\* whose flagged insert failed and left no record.
C23_Witness ==
    /\ \E i \in LoggedResponses :
          /\ responses[i].decision = "REVIEW"
          /\ FlaggedRowsOf(i) # {}
          /\ \A k \in FlaggedRowsOf(i) : db_flagged[k].risk_level = "HIGH"
    /\ \E i \in LoggedResponses :
          /\ responses[i].logging.flag_called
          /\ ~responses[i].logging.flag_ok
          /\ FlaggedRowsOf(i) = {}

\* The predict_fraud requests that were scored, whatever became of them.
ScoredRequests ==
    {i \in 1..Len(responses) :
        /\ responses[i].path = "predict_fraud"
        /\ "logging" \in DOMAIN responses[i]}

\* The logging of request i went through: there is a database service, the
\* transaction insert returned a record and so did the flagged insert if
\* it was made.
LoggingSucceeded(i) ==
    LET g == responses[i].logging
    IN  g.service /\ g.inserted /\ (g.flag_called => g.flag_ok)

\* C24: a failure of the database logging (no service, log_transaction or
\* log_flagged_transaction giving nothing) never changes the response: the
\* request is answered 200, with the fraud_probability, fraud_prediction,
\* decision and confidence that a request of the same probability whose
\* logging succeeded is answered with.
C24_LoggingFailureKeepsResponse ==
    \A i \in ScoredRequests :
        /\ responses[i].status = "200"
        /\ \A j \in ScoredRequests :
              (LoggingSucceeded(j) /\ responses[j].prob = responses[i].prob)
              => /\ responses[i].status = responses[j].status
                 /\ responses[i].fraud_probability = responses[j].fraud_probability
                 /\ responses[i].fraud_prediction = responses[j].fraud_prediction
                 /\ responses[i].decision = responses[j].decision
                 /\ responses[i].confidence = responses[j].confidence

\* The same probability answered twice as BLOCK with status 200: once with
\* both rows written, once with the transaction insert giving nothing.
C24_Witness ==
    \E i, j \in ScoredRequests :
        /\ responses[i].prob = responses[j].prob
        /\ responses[i].decision = "BLOCK"
        /\ LoggingSucceeded(i)
        /\ responses[j].logging.service /\ ~responses[j].logging.inserted
        /\ responses[j].status = "200"
        /\ Len(db_transactions) = 1 /\ Len(db_flagged) = 1

\* The predict_fraud requests whose transform or predict_proba raised: the
\* artifacts were there and no probability came out.
FailedScorings ==
    {i \in 1..Len(responses) :
        /\ responses[i].path = "predict_fraud"
        /\ "prob" \notin DOMAIN responses[i]
        /\ model /\ preprocessor}

\* C25: when transform or predict_proba raises, the request is answered 500
\* with neither a probability nor a decision, and it writes nothing: the
\* transactions table holds exactly one row per scored request whose insert
\* returned a record, the flagged table one row per successful flagged
\* insert.
C25_ScoringErrorIs500 ==
    /\ \A i \in FailedScorings :
          /\ responses[i].status = "500"
          /\ DOMAIN responses[i] = {"path", "status"}
    /\ Len(db_transactions) =
          Cardinality({i \in ScoredRequests : responses[i].logging.inserted})
    /\ Len(db_flagged) =
          Cardinality({i \in ScoredRequests :
                          /\ responses[i].logging.flag_called
                          /\ responses[i].logging.flag_ok})

\* A request logged and flagged, then a request whose scoring raised: the
\* tables still hold the one row each.
C25_Witness ==
    /\ Len(responses) = 2
    /\ 1 \in ScoredRequests /\ LoggingSucceeded(1)
    /\ responses[1].decision = "REVIEW"
    /\ 2 \in FailedScorings
    /\ responses[2].status = "500"
    /\ Len(db_transactions) = 1 /\ Len(db_flagged) = 1

----------------------------------------------------------------------------
(* The order of the bulk derivation *)

\* C26: in the derived frame every card's rows are in non-decreasing
\* timestamp order and rows of one card with equal timestamps are in file
\* order; the rows before a row in this order (TimelineBefore) are the ones
\* each of the four statistics is computed from: the gap from the latest of
\* them, the rolling count from those within the hour, the expanding mean
\* from all of them, the new-merchant flag from their merchants.
C26_StableTimelineOrder ==
    ipc # "load" =>
        /\ \A i, j \in 1..Len(df) :
              (i < j /\ df[i].cc_num = df[j].cc_num)
              => \/ df[i].ts < df[j].ts
                 \/ df[i].ts = df[j].ts /\ df[i].id < df[j].id
        /\ \A i \in 1..Len(df) :
              LET B == TimelineBefore(raw, df[i])
              IN  /\ df[i].txn_time_gap =
                        IF B = {} THEN <<0>>
                        ELSE <<(df[i].ts - SetMax({raw[j].ts : j \in B}))
                                  % DaySeconds>>
                  /\ df[i].txn_count_1h =
                        1 + Cardinality({j \in B :
                                raw[j].ts > df[i].ts - HourSeconds})
                  /\ df[i].avg_amt_per_card =
                        IF B = {} THEN Median(raw)
                        ELSE Rat(SumAmt(raw, B), Cardinality(B))
                  /\ df[i].is_new_merchant = 1 <=>
                        ~\E j \in B : raw[j].merchant = df[i].merchant

\* Two rows of one card with the same timestamp, given in the file after a
\* later row of that card: the sort moves them to the front in file order,
\* and the second of them is counted after the first.
C26_Witness ==
    /\ ipc = "done"
    /\ Len(raw) = 3
    /\ raw[1].cc_num = raw[2].cc_num /\ raw[2].cc_num = raw[3].cc_num
    /\ raw[1].ts > raw[2].ts /\ raw[2].ts = raw[3].ts
    /\ raw[2].merchant = raw[3].merchant
    /\ df[1].id = 2 /\ df[2].id = 3 /\ df[3].id = 1
    /\ df[1].is_new_merchant = 1 /\ df[2].is_new_merchant = 0
    /\ df[2].txn_count_1h = 2

----------------------------------------------------------------------------
(* Claims about the model trainer *)

\* C27: _prepare_input never changes the number of samples: whatever form
\* the input has, the matrix it returns has as many rows as the input has
\* samples.
C27_PrepareInputKeepsSamples ==
    (prepared # <<>> /\ prepared.out.status = "returned")
    => prepared.out.rows = NumSamples(prepared.X)

----------------------------------------------------------------------------
(* The frame of the backend's request handlers *)

\* A /predict request was answered 503 for missing artifacts.
Answered503 ==
    \E i \in 1..Len(responses) :
        responses[i].path = "predict_fraud" /\ responses[i].status = "503"

\* C28: model, preprocessor and db_service change only in the step of
\* load_artifacts (the startup), never in a step of a request handler; once
\* a /predict request was answered 503, every later /predict request is
\* answered 503 as well.
C28_ArtifactsWrittenOnlyAtStartup ==
    [][/\ (<<model, preprocessor, db_service>>' # <<model, preprocessor, db_service>>)
          => (~started /\ started')
       /\ (/\ Answered503
           /\ Len(responses') = Len(responses) + 1
           /\ responses'[Len(responses')].path = "predict_fraud")
          => responses'[Len(responses')].status = "503"]_vars

\* Two /predict requests answered 503 with the model missing, and a health
\* check after them that still reports the model as not loaded.
C28_Witness ==
    /\ started /\ ~model /\ preprocessor
    /\ Len(responses) = 2
    /\ \A i \in 1..2 :
          responses[i].path = "predict_fraud" /\ responses[i].status = "503"
    /\ last_read # <<>>
    /\ last_read.path = "health_check"
    /\ ~last_read.model_loaded

----------------------------------------------------------------------------
(* Claims about customer_age *)

\* C29: customer_age is the floor of (whole days from the birth date to the
\* transaction timestamp) / 365: with d the largest number of whole days
\* not after the timestamp, customer_age is the largest a with 365 a <= d,
\* also when the birth date is later than the timestamp.
C29_CustomerAgeIsFloor ==
    (aged # <<>> /\ aged.dob # NaT) =>
        \E d \in -((MaxYears + 1) * YearDays)..((MaxYears + 1) * YearDays) :
            /\ d * DaySeconds <= aged.ts[1] - aged.dob[1]
            /\ aged.ts[1] - aged.dob[1] < (d + 1) * DaySeconds
            /\ aged.customer_age # NaN
            /\ aged.customer_age[1] * YearDays <= d
            /\ d < (aged.customer_age[1] + 1) * YearDays

\* A birth date one second after the transaction: -1 whole days, age -1.
C29_Witness ==
    /\ aged # <<>> /\ aged.dob # NaT
    /\ aged.ts[1] - aged.dob[1] = -1
    /\ aged.customer_age = <<-1>>

----------------------------------------------------------------------------
(* The candidate order of predictpipeline.predict *)

PipelineCalls ==
    {i \in 1..Len(responses) : responses[i].path = "predictpipeline"}

\* The call raised FileNotFoundError (wrapped in customException).
RaisedFileNotFound(i) ==
    /\ responses[i].status = "customException"
    /\ responses[i].cause = "FileNotFoundError"

\* xgb_model.pkl is used whenever it loads, model.pkl only when
\* xgb_model.pkl does not load and model.pkl does.
CandidateOrder(i) ==
    /\ files[XgbModelPkl] = "ok" =>
          (XgbModelPkl \in responses[i].loaded
           /\ ModelPkl \notin responses[i].loaded)
    /\ ModelPkl \in responses[i].loaded =>
          (files[XgbModelPkl] # "ok" /\ files[ModelPkl] = "ok")

\* C30 as stated: the candidates are tried in order, and FileNotFoundError
\* is raised only when no model candidate loads, with nothing loaded then.
C30_FileNotFoundOnlyWithoutModel ==
    \A i \in PipelineCalls :
        /\ CandidateOrder(i)
        /\ RaisedFileNotFound(i) =>
              (/\ files[XgbModelPkl] # "ok" /\ files[ModelPkl] # "ok"
               /\ responses[i].loaded = {})

\* C30 amended: the candidates are tried in order; FileNotFoundError is
\* raised exactly when no model candidate loads or, a model being loaded,
\* preprocessor.pkl does not load; when no model candidate loads nothing is
\* loaded, the preprocessor is never in what a failed call loaded, and a
\* call that raised FileNotFoundError has no probability.
C30_FileNotFoundWithoutModelOrPreprocessor ==
    \A i \in PipelineCalls :
        /\ CandidateOrder(i)
        /\ RaisedFileNotFound(i) <=>
              \/ files[XgbModelPkl] # "ok" /\ files[ModelPkl] # "ok"
              \/ files[PreprocessorPkl] # "ok"
        /\ (files[XgbModelPkl] # "ok" /\ files[ModelPkl] # "ok")
              => responses[i].loaded = {}
        /\ RaisedFileNotFound(i) =>
              /\ PreprocessorPkl \notin responses[i].loaded
              /\ "prob" \notin DOMAIN responses[i]

\* xgb_model.pkl does not load, model.pkl does, preprocessor.pkl does not:
\* FileNotFoundError with model.pkl loaded.
C30_Witness ==
    /\ files[XgbModelPkl] # "ok" /\ files[ModelPkl] = "ok"
    /\ files[PreprocessorPkl] # "ok"
    /\ \E i \in PipelineCalls :
          RaisedFileNotFound(i) /\ responses[i].loaded = {ModelPkl}

====
